---- MODULE Spec2Model ----
(***************************************************************************)
(* Fire-weather-index PINN: the training script train_pinn_model.py and    *)
(* the prediction path of the Flask service app.py.                        *)
(*                                                                         *)
(* Numbers.  Raw CSV cells and request values are integers.  Everything    *)
(* the code computes in floating point (scaler statistics, scaled          *)
(* features, network activations, losses) is fixed point with Unit steps   *)
(* per 1.0, division rounding towards minus infinity.  A float that can    *)
(* be non-finite is a record [kind, v] with kind "num", "inf" or "nan".    *)
(*                                                                         *)
(* Network.  The code's 8 -> 128 -> 64 -> 1 ReLU network is kept in shape  *)
(* (dense+ReLU, dense+ReLU, dense linear) with one unit per hidden layer   *)
(* and integer weights; Adam's update is any member of ParamSpace.         *)
(***************************************************************************)
EXTENDS Integers, Sequences, FiniteSets, TLC

VARIABLES
    pc,             \* position of train_pinn_model.py
    csv,            \* the dataset file as read by pd.read_csv
    df,             \* rows left after numeric conversion and dropna
    train_idx,      \* indices of df in the training split
    test_idx,       \* indices of df in the test split
    scaler,         \* the StandardScaler of the training script
    X_train_scaled, \* index -> scaled feature vector
    X_test_scaled,
    model,          \* network parameters of the training script
    epoch,          \* 1-based number of the epoch being run
    remaining,      \* training rows of this epoch not yet in a batch
    opt_steps,      \* optimizer.iterations
    last_loss,      \* what the last train_step returned
    test_loss,      \* model.evaluate's result
    disk,           \* scaler_pinn.pkl and fwi_pinn_model.keras
    writes,         \* how often each artifact file was written
    app,            \* app.py: "down" or "up"
    app_scaler,     \* app.py's global scaler
    pinn_model,     \* app.py's global pinn_model
    reqs,           \* in-flight /api/predict requests, by worker thread
    phys,           \* a stand-alone call of the physics penalty
    users,          \* app.py: the rows of the User table
    current_user,   \* app.py: the user of the session, or Anonymous
    last            \* the last request of the session and its answer

vars == <<pc, csv, df, train_idx, test_idx, scaler, X_train_scaled, X_test_scaled,
          model, epoch, remaining, opt_steps, last_loss, test_loss, disk, writes,
          app, app_scaler, pinn_model, reqs, phys, users, current_user, last>>

trainVars == <<pc, csv, df, train_idx, test_idx, scaler, X_train_scaled,
               X_test_scaled, model, epoch, remaining, opt_steps, last_loss,
               test_loss, disk, writes>>

appVars == <<app, app_scaler, pinn_model, reqs>>

authVars == <<users, current_user, last>>

-----------------------------------------------------------------------------
(* Bounds of the model *)

\* rows of the dataset file
MaxRows == 4
\* the code's N_EPOCHS is 100 and BATCH_SIZE 32: scaled down with the data
N_EPOCHS == 2
BATCH_SIZE == 2
\* worker threads of the service, one request each
MaxInflight == 2
\* samples in a stand-alone physics batch
MaxPhysBatch == 2

\* fixed-point steps per 1.0
Unit == 1000

-----------------------------------------------------------------------------
(* Configuration: train_pinn_model.py section 1 *)

FEATURES == <<"Temperature", "RH", "Ws", "Rain", "FFMC", "DMC", "DC", "ISI">>
TARGET == "FWI"
PHYSICS_FEATURES_INDICES == [Temperature |-> 0, RH |-> 1, Ws |-> 2, Rain |-> 3]
\* PHYSICS_LOSS_WEIGHT = 0.1 = 1 / PHYSICS_LOSS_WEIGHT_INV
PHYSICS_LOSS_WEIGHT_INV == 10
\* test_size = 0.2 = 1 / TEST_SIZE_INV
TEST_SIZE_INV == 5

NFeatures == Len(FEATURES)
FeatureIdx == 1..NFeatures
numeric_cols == FEATURES \o <<TARGET>>
Range(s) == {s[i] : i \in DOMAIN s}

-----------------------------------------------------------------------------
(* Floats *)

F(v) == [kind |-> "num", v |-> v]
NaN == [kind |-> "nan", v |-> 0]
Inf == [kind |-> "inf", v |-> 0]
None == [kind |-> "None"]
IsFinite(x) == x.kind = "num"

\* whether record r has field f
HasField(r, f) == f \in DOMAIN r

\* functions of the pair, so that each argument is evaluated once
MaxOf[a \in Int \X Int] == IF a[1] >= a[2] THEN a[1] ELSE a[2]
Max(a, b) == MaxOf[<<a, b>>]
Min(a, b) == -MaxOf[<<-a, -b>>]

\* the sum of a sequence of integers
SumFn[s \in Seq(Int)] == IF s = <<>> THEN 0 ELSE Head(s) + SumFn[Tail(s)]
SumSeq(s) == SumFn[s]

\* floor of the square root, by bisection on [lo, hi) = [a[2], a[3]) for v = a[1]
IsqrtIn[a \in Nat \X Nat \X Nat] ==
    IF a[3] - a[2] <= 1 THEN a[2]
    ELSE IF ((a[2] + a[3]) \div 2) * ((a[2] + a[3]) \div 2) <= a[1]
         THEN IsqrtIn[<<a[1], (a[2] + a[3]) \div 2, a[3]>>]
         ELSE IsqrtIn[<<a[1], a[2], (a[2] + a[3]) \div 2>>]
Isqrt(v) == IsqrtIn[<<v, 0, 46341>>]

\* a set of integers as the increasing sequence of its members
SortedFn[S \in SUBSET Int] ==
    IF S = {} THEN <<>>
    ELSE <<CHOOSE x \in S : \A y \in S : x <= y>>
         \o SortedFn[S \ {CHOOSE x \in S : \A y \in S : x <= y}]
SortedSeq(S) == SortedFn[S]

-----------------------------------------------------------------------------
(* The dataset file.  A cell is the text pandas reads: a number, text that *)
(* is no number, or "inf" (only ever a target value here: StandardScaler   *)
(* refuses infinite features, and no row of Catalogue has one).            *)

Num(v) == [kind |-> "num", v |-> v]
Text == [kind |-> "text", v |-> 0]
InfText == [kind |-> "inf", v |-> 0]

AllColumns == Range(numeric_cols)

RowA == [Temperature |-> Num(25), RH |-> Num(40), Ws |-> Num(10), Rain |-> Num(0),
         FFMC |-> Num(85), DMC |-> Num(6), DC |-> Num(15), ISI |-> Num(2),
         FWI |-> Num(1)]
RowB == [Temperature |-> Num(35), RH |-> Num(20), Ws |-> Num(20), Rain |-> Num(2),
         FFMC |-> Num(95), DMC |-> Num(16), DC |-> Num(35), ISI |-> Num(8),
         FWI |-> Num(9)]
RowText == [RowA EXCEPT !.RH = Text]
RowInf == [RowB EXCEPT !.FWI = InfText]
Catalogue == <<RowA, RowB, RowText, RowInf>>

\* index sequences in increasing order: the split and the shuffle are random,
\* so the order of the rows in the file decides nothing
SortedIdxSeqs(n) ==
    {s \in [1..n -> DOMAIN Catalogue] : \A i \in 1..n, j \in 1..n : i < j => s[i] <= s[j]}

Restrict(row, cols) == [c \in cols |-> row[c]]

ColumnSets == {AllColumns, AllColumns \ {"Rain"}, AllColumns \ {TARGET}}

CsvFiles ==
    {[exists |-> FALSE, columns |-> {}, rows |-> <<>>]}
    \cup UNION {{[exists |-> TRUE, columns |-> AllColumns,
                  rows |-> [i \in 1..n |-> Catalogue[s[i]]]] : s \in SortedIdxSeqs(n)} :
                 n \in 0..MaxRows}
    \cup {[exists |-> TRUE, columns |-> cols,
           rows |-> <<Restrict(RowA, cols), Restrict(RowB, cols)>>] :
            cols \in ColumnSets \ {AllColumns}}

-----------------------------------------------------------------------------
(* Load and prepare: train_pinn_model.py section 2 *)

\* pd.to_numeric(errors='coerce')
to_numeric(cell) ==
    CASE cell.kind = "num" -> F(cell.v)
      [] cell.kind = "inf" -> Inf
      [] OTHER -> NaN

MissingColumn(file) == \E col \in Range(numeric_cols) : col \notin file.columns

ConvertNumeric(rows) ==
    [i \in DOMAIN rows |-> [c \in DOMAIN rows[i] |->
        IF c \in Range(numeric_cols) THEN to_numeric(rows[i][c]) ELSE rows[i][c]]]

HasNaN(row) == \E c \in Range(numeric_cols) : row[c].kind = "nan"

\* rows with a cell that is no number stay in the frame
DropNaKeepsRows(rows) == rows

\* df.dropna(subset=numeric_cols) and reset_index
DropNa(rows) == SelectSeq(rows, LAMBDA r : ~HasNaN(r))

\* X = df[FEATURES], y = df[TARGET]: one sample per row
Sample(row) == [x |-> [i \in FeatureIdx |-> row[FEATURES[i]].v], y |-> row[TARGET]]
Samples(rows) == [i \in DOMAIN rows |-> Sample(rows[i])]

-----------------------------------------------------------------------------
(* StandardScaler *)

ColSum(X, S, j) == SumSeq([k \in 1..Cardinality(S) |-> X[SortedSeq(S)[k]].x[j]])
ColSumSq(X, S, j) ==
    SumSeq([k \in 1..Cardinality(S) |-> X[SortedSeq(S)[k]].x[j] * X[SortedSeq(S)[k]].x[j]])

\* n^2 times the (population) variance of column j over the rows S
VarN2(X, S, j) == Cardinality(S) * ColSumSq(X, S, j) - ColSum(X, S, j) * ColSum(X, S, j)

ConstantColumn(X, S, j) == VarN2(X, S, j) = 0

\* scaler.fit: mean_ and scale_ per column; a zero-variance column gets
\* scale_ 1.0 (sklearn's _handle_zeros_in_scale), no error is raised
Fit(X, S) ==
    LET n == Cardinality(S)
    IN [kind |-> "scaler",
        mean |-> [j \in FeatureIdx |-> (ColSum(X, S, j) * Unit) \div n],
        scale |-> [j \in FeatureIdx |->
            IF ConstantColumn(X, S, j) THEN Unit
            ELSE Isqrt(((VarN2(X, S, j) * Unit) \div (n * n)) * Unit)]]

\* scaler.transform of one raw feature vector
Transform(s, x) ==
    [j \in FeatureIdx |-> ((x[j] * Unit - s.mean[j]) * Unit) \div s.scale[j]]

-----------------------------------------------------------------------------
(* The network: Dense+ReLU, Dense+ReLU, Dense *)

W1Up == <<1, -1, 1, -1, 1, 1, 1, 1>>
W1Down == <<-1, 1, -1, 1, -1, -1, -1, -1>>

Params(w1, b1, w2, b2, w3, b3) ==
    [kind |-> "params", w1 |-> w1, b1 |-> b1, w2 |-> w2, b2 |-> b2, w3 |-> w3, b3 |-> b3]

\* every parameter NaN
NaNParams == [kind |-> "nanparams"]

ParamSpace == {Params(w, 0, 1, 0, 1, b) : w \in {W1Up, W1Down}, b \in {-1, 0}}

\* Dense's default initializers: random kernels, zero biases
InitParamSpace == {p \in ParamSpace : p.b1 = 0 /\ p.b2 = 0 /\ p.b3 = 0}

relu(z) == Max(0, z)
Z1(p, xs) == SumSeq([i \in FeatureIdx |-> p.w1[i] * xs[i]]) + p.b1 * Unit
Z2(p, xs) == p.w2 * relu(Z1(p, xs)) + p.b2 * Unit

\* model(x): the prediction for one scaled feature vector
Forward(p, xs) ==
    IF p.kind = "nanparams" THEN NaN
    ELSE F(p.w3 * relu(Z2(p, xs)) + p.b3 * Unit)

\* ReLU's derivative: 1 where the pre-activation is > 0, else 0
Act(z) == IF z > 0 THEN 1 ELSE 0

\* the derivative of the output with respect to the first pre-activation
Slope(p, xs) == p.w3 * Act(Z2(p, xs)) * p.w2 * Act(Z1(p, xs))
ScaleVec[a \in Int \X Seq(Int)] == [i \in DOMAIN a[2] |-> a[1] * a[2][i]]

\* tape.gradient(y_pred, x_batch) for one sample, p finite
InputGradient(p, xs) == ScaleVec[<<Slope(p, xs), p.w1>>]

-----------------------------------------------------------------------------
(* Losses: train_pinn_model.py section 5 *)

AddF(a, b) ==
    CASE a.kind = "nan" \/ b.kind = "nan" -> NaN
      [] a.kind = "inf" \/ b.kind = "inf" -> Inf
      [] OTHER -> F(a.v + b.v)

\* the square of a fixed-point number
SqFx(e) == LET h == e \div 10 IN (h * h) \div 10

\* tf.reduce_mean of a sequence of integers, in fixed point
reduce_mean(s) == (SumSeq(s) * Unit) \div Len(s)

\* MeanSquaredError()(y, pred) over a batch: ys and preds are sequences
mse_loss_fn(ys, preds) ==
    CASE \E k \in DOMAIN preds : preds[k].kind = "nan" -> NaN
      [] \E k \in DOMAIN ys : ys[k].kind = "inf" -> Inf
      [] OTHER ->
            F(SumSeq([k \in DOMAIN ys |-> SqFx(ys[k].v * Unit - preds[k].v)]) \div Len(ys))

Column(gradients, idx) == [k \in DOMAIN gradients |-> gradients[k][idx + 1]]

\* lines 105-114: the penalty of a batch's input gradients
PhysicsPenaltyOf[gradients \in Seq(Seq(Int))] ==
    LET grad_temp == Column(gradients, PHYSICS_FEATURES_INDICES["Temperature"])
        grad_rh == Column(gradients, PHYSICS_FEATURES_INDICES["RH"])
        grad_ws == Column(gradients, PHYSICS_FEATURES_INDICES["Ws"])
        grad_rain == Column(gradients, PHYSICS_FEATURES_INDICES["Rain"])
        loss_temp == reduce_mean([k \in DOMAIN grad_temp |-> Max(0, -grad_temp[k])])
        loss_rh == reduce_mean([k \in DOMAIN grad_rh |-> Max(0, grad_rh[k])])
        loss_ws == reduce_mean([k \in DOMAIN grad_ws |-> Max(0, -grad_ws[k])])
        loss_rain == reduce_mean([k \in DOMAIN grad_rain |-> Max(0, grad_rain[k])])
    IN loss_temp + loss_rh + loss_ws + loss_rain

\* the wind-speed term with the sign of the humidity term
PhysicsPenaltyWsFlipped(gradients) ==
    LET grad_temp == Column(gradients, PHYSICS_FEATURES_INDICES["Temperature"])
        grad_rh == Column(gradients, PHYSICS_FEATURES_INDICES["RH"])
        grad_ws == Column(gradients, PHYSICS_FEATURES_INDICES["Ws"])
        grad_rain == Column(gradients, PHYSICS_FEATURES_INDICES["Rain"])
        loss_temp == reduce_mean([k \in DOMAIN grad_temp |-> Max(0, -grad_temp[k])])
        loss_rh == reduce_mean([k \in DOMAIN grad_rh |-> Max(0, grad_rh[k])])
        loss_ws == reduce_mean([k \in DOMAIN grad_ws |-> Max(0, grad_ws[k])])
        loss_rain == reduce_mean([k \in DOMAIN grad_rain |-> Max(0, grad_rain[k])])
    IN loss_temp + loss_rh + loss_ws + loss_rain

PhysicsPenalty(gradients) == PhysicsPenaltyOf[gradients]

\* lines 99-103: tape.gradient(y_pred, x_batch), xb the scaled vectors
InputGradients(p, xb) == [k \in DOMAIN xb |-> InputGradient(p, xb[k])]

\* physics_loss_fn(model, x_batch)
physics_loss_fn(p, xb) ==
    IF p.kind = "nanparams" THEN NaN ELSE F(PhysicsPenalty(InputGradients(p, xb)))

\* line 123: data_loss + PHYSICS_LOSS_WEIGHT * physics_loss
TotalLoss(data_loss, physics_loss) ==
    AddF(data_loss, IF IsFinite(physics_loss)
                    THEN F(physics_loss.v \div PHYSICS_LOSS_WEIGHT_INV)
                    ELSE physics_loss)

-----------------------------------------------------------------------------
(* State after construction *)

Absent == [kind |-> "absent"]
Corrupt == [kind |-> "corrupt"]
Threads == 1..MaxInflight
IdleRequest == [pc |-> "idle"]
IdlePhys == [pc |-> "idle"]

TrainInit ==
    /\ pc = "start"
    /\ csv \in CsvFiles
    /\ df = <<>>
    /\ train_idx = {}
    /\ test_idx = {}
    /\ scaler = None
    /\ X_train_scaled = <<>>
    /\ X_test_scaled = <<>>
    /\ model = None
    /\ epoch = 0
    /\ remaining = {}
    /\ opt_steps = 0
    /\ last_loss = None
    /\ test_loss = None
    /\ disk = [scaler |-> Absent, model |-> Absent]
    /\ writes = [scaler |-> 0, model |-> 0]

AppInit ==
    /\ app = "down"
    /\ app_scaler = None
    /\ pinn_model = None
    /\ reqs = [t \in Threads |-> IdleRequest]

\* flask_login's AnonymousUserMixin: the user of a session that is not logged in
Anonymous == "anonymous"
NoRequest == [op |-> "none"]

\* an empty User table and a fresh session
AuthInit ==
    /\ users = {}
    /\ current_user = Anonymous
    /\ last = NoRequest

Init == TrainInit /\ AppInit /\ phys = IdlePhys /\ AuthInit

-----------------------------------------------------------------------------
(* train_pinn_model.py, top to bottom *)

\* section 2 (lines 24-75): exit() on a missing file, a missing column or
\* an empty frame; rows with a cell that is no number are dropped
LoadAndPrepareData ==
    /\ pc = "start"
    /\ IF ~csv.exists \/ MissingColumn(csv)
       THEN pc' = "exited" /\ df' = df
       ELSE LET rows == DropNa(ConvertNumeric(csv.rows))
            IN IF Len(rows) = 0
               THEN pc' = "exited" /\ df' = df
               ELSE pc' = "prepared" /\ df' = Samples(rows)
    /\ UNCHANGED <<csv, train_idx, test_idx, scaler, X_train_scaled, X_test_scaled,
                   model, epoch, remaining, opt_steps, last_loss, test_loss, disk,
                   writes, appVars, phys, authVars>>

\* train_test_split's sizes: n_test = ceil(test_size * n)
NTest(n) == (n + TEST_SIZE_INV - 1) \div TEST_SIZE_INV

\* line 78: a random split into disjoint index sets.  train_test_split
\* raises ValueError when the training set would be empty.
TrainTestSplit ==
    /\ pc = "prepared"
    /\ LET n == Len(df)
       IN IF n - NTest(n) = 0
          THEN pc' = "crashed" /\ UNCHANGED <<train_idx, test_idx>>
          ELSE \E T \in SUBSET (1..n) :
                /\ Cardinality(T) = NTest(n)
                /\ test_idx' = T
                /\ train_idx' = (1..n) \ T
                /\ pc' = "split"
    /\ UNCHANGED <<csv, df, scaler, X_train_scaled, X_test_scaled, model, epoch,
                   remaining, opt_steps, last_loss, test_loss, disk, writes,
                   appVars, phys, authVars>>

\* the scaler fitted on the whole frame
FitRowsAll(train, test) == train \cup test

\* the rows scaler.fit_transform sees: X_train
FitRows(train, test) == train

\* lines 79-84: the scaler is fitted on the training rows and applied to
\* both splits
FitAndScale ==
    /\ pc = "split"
    /\ scaler' = Fit(df, FitRows(train_idx, test_idx))
    /\ X_train_scaled' = [i \in train_idx |-> Transform(scaler', df[i].x)]
    /\ X_test_scaled' = [i \in test_idx |-> Transform(scaler', df[i].x)]
    /\ pc' = "scaled"
    /\ UNCHANGED <<csv, df, train_idx, test_idx, model, epoch, remaining, opt_steps,
                   last_loss, test_loss, disk, writes, appVars, phys, authVars>>

\* sections 4 and 5 (lines 86-96): the network and its optimizer
BuildModel ==
    /\ pc = "scaled"
    /\ model' \in InitParamSpace
    /\ pc' = "Initialized"
    /\ UNCHANGED <<csv, df, train_idx, test_idx, scaler, X_train_scaled, X_test_scaled,
                   epoch, remaining, opt_steps, last_loss, test_loss, disk, writes,
                   appVars, phys, authVars>>

\* the next epoch starts while batches of this one are still waiting
StartEpochEarly ==
    /\ pc = "Initialized" \/ pc = "Fitting"
    /\ epoch < N_EPOCHS
    /\ epoch' = epoch + 1
    /\ remaining' = train_idx
    /\ pc' = "Fitting"
    /\ UNCHANGED <<csv, df, train_idx, test_idx, scaler, X_train_scaled, X_test_scaled,
                   model, opt_steps, last_loss, test_loss, disk, writes, appVars, phys, authVars>>

\* line 130, 134: the next epoch starts with a fresh shuffle of all training rows
StartEpoch ==
    /\ pc = "Initialized" \/ (pc = "Fitting" /\ remaining = {})
    /\ epoch < N_EPOCHS
    /\ epoch' = epoch + 1
    /\ remaining' = train_idx
    /\ pc' = "Fitting"
    /\ UNCHANGED <<csv, df, train_idx, test_idx, scaler, X_train_scaled, X_test_scaled,
                   model, opt_steps, last_loss, test_loss, disk, writes, appVars, phys, authVars>>

\* optimizer.apply_gradients: Adam moves the parameters anywhere in ParamSpace;
\* a non-finite loss has non-finite gradients, which leave the output bias
\* NaN, and with it every later prediction
apply_gradients(p, total_loss) ==
    IF IsFinite(total_loss) /\ p.kind = "params" THEN ParamSpace ELSE {NaNParams}

\* lines 117-126 and 134-138: one batch B of the shuffled training set
train_step(B) ==
    \E x_batch \in {[k \in 1..Cardinality(B) |-> X_train_scaled[SortedSeq(B)[k]]]},
       y_batch \in {[k \in 1..Cardinality(B) |-> df[SortedSeq(B)[k]].y]} :
      \E y_pred \in {[k \in DOMAIN x_batch |-> Forward(model, x_batch[k])]},
         physics_loss \in {physics_loss_fn(model, x_batch)} :
        \E data_loss \in {mse_loss_fn(y_batch, y_pred)} :
          \E total_loss \in {TotalLoss(data_loss, physics_loss)} :
            /\ model' \in apply_gradients(model, total_loss)
            /\ opt_steps' = opt_steps + 1
            /\ last_loss' = [data_loss |-> data_loss, physics_loss |-> physics_loss,
                             total_loss |-> total_loss]

TrainStep ==
    /\ pc = "Fitting"
    /\ remaining # {}
    /\ \E B \in SUBSET remaining :
        /\ Cardinality(B) = Min(BATCH_SIZE, Cardinality(remaining))
        /\ train_step(B)
        /\ remaining' = remaining \ B
    /\ UNCHANGED <<pc, csv, df, train_idx, test_idx, scaler, X_train_scaled,
                   X_test_scaled, epoch, test_loss, disk, writes, appVars, phys, authVars>>

\* line 142: the loop over range(N_EPOCHS) is exhausted
FinishTraining ==
    /\ pc = "Initialized" \/ (pc = "Fitting" /\ remaining = {})
    /\ epoch = N_EPOCHS
    /\ pc' = "Evaluating"
    /\ UNCHANGED <<csv, df, train_idx, test_idx, scaler, X_train_scaled, X_test_scaled,
                   model, epoch, remaining, opt_steps, last_loss, test_loss, disk,
                   writes, appVars, phys, authVars>>

\* section 8 (lines 144-149): the test split's mean squared error
Evaluate ==
    /\ pc = "Evaluating"
    /\ LET idxs == SortedSeq(test_idx)
       IN test_loss' = mse_loss_fn([k \in DOMAIN idxs |-> df[idxs[k]].y],
                                   [k \in DOMAIN idxs |-> Forward(model, X_test_scaled[idxs[k]])])
    /\ pc' = "Evaluated"
    /\ UNCHANGED <<csv, df, train_idx, test_idx, scaler, X_train_scaled, X_test_scaled,
                   model, epoch, remaining, opt_steps, last_loss, disk, writes,
                   appVars, phys, authVars>>

\* lines 158-160: pickle.dump(scaler)
SaveScaler ==
    /\ pc = "Evaluated"
    /\ disk' = [disk EXCEPT !.scaler = scaler]
    /\ writes' = [writes EXCEPT !.scaler = @ + 1]
    /\ pc' = "ScalerSaved"
    /\ UNCHANGED <<csv, df, train_idx, test_idx, scaler, X_train_scaled, X_test_scaled,
                   model, epoch, remaining, opt_steps, last_loss, test_loss,
                   appVars, phys, authVars>>

\* lines 162-164: model.save
SaveModel ==
    /\ pc = "ScalerSaved"
    /\ disk' = [disk EXCEPT !.model = model]
    /\ writes' = [writes EXCEPT !.model = @ + 1]
    /\ pc' = "Persisted"
    /\ UNCHANGED <<csv, df, train_idx, test_idx, scaler, X_train_scaled, X_test_scaled,
                   model, epoch, remaining, opt_steps, last_loss, test_loss,
                   appVars, phys, authVars>>

TrainNext ==
    \/ LoadAndPrepareData
    \/ TrainTestSplit
    \/ FitAndScale
    \/ BuildModel
    \/ StartEpoch
    \/ TrainStep
    \/ FinishTraining
    \/ Evaluate
    \/ SaveScaler
    \/ SaveModel

\* no training run is writing the artifact files
TrainEnded == pc \in {"Persisted", "exited", "crashed", "off"}

-----------------------------------------------------------------------------
(* app.py: loading the artifacts (lines 24-45) *)

\* pickle.load(open(scaler_path, 'rb')): FileNotFoundError, or an unpickling error
ScalerLoads(file) == file.kind = "scaler"
\* tf.keras.models.load_model(model_path)
ModelLoads(file) == file.kind \in {"params", "nanparams"}

\* the except branch forgets to reset the scaler
OnLoadErrorKeepsScaler(s) == [scaler |-> s, pinn_model |-> None]

\* every except branch (lines 34-45) resets both globals; s is the scaler
\* already bound when load_model raised
OnLoadError(s) == [scaler |-> None, pinn_model |-> None]

LoadModels(d) ==
    IF ~ScalerLoads(d.scaler) THEN OnLoadError(None)
    ELSE IF ~ModelLoads(d.model) THEN OnLoadError(d.scaler)
    ELSE [scaler |-> d.scaler, pinn_model |-> d.model]

\* the module body of app.py runs once; the service then accepts requests
Startup ==
    /\ app = "down"
    /\ TrainEnded
    /\ app_scaler' = LoadModels(disk).scaler
    /\ pinn_model' = LoadModels(disk).pinn_model
    /\ app' = "up"
    /\ UNCHANGED <<trainVars, reqs, phys, authVars>>

-----------------------------------------------------------------------------
(* app.py: POST /api/predict (lines 171-203), one step per statement that  *)
(* reads a global, so that requests on several threads interleave          *)

\* humidity and wind_speed read in each other's place
request_keys_swapped == <<"temperature", "wind_speed", "humidity", "rain",
                          "ffmc", "dmc", "dc", "isi">>

\* the keys read from the request, in the order of the feature list
request_keys == <<"temperature", "humidity", "wind_speed", "rain",
                  "ffmc", "dmc", "dc", "isi">>

Missing == [kind |-> "missing", v |-> 0]

ScenarioBody == [temperature |-> Num(25), humidity |-> Num(40), wind_speed |-> Num(10),
                 rain |-> Num(0), ffmc |-> Num(85), dmc |-> Num(6), dc |-> Num(15),
                 isi |-> Num(2)]
EmptyBody == [k \in Range(request_keys) |-> Missing]
TextBody == [ScenarioBody EXCEPT !.temperature = Text]

\* auth: whether the session cookie of the request is that of a logged-in user
Requests ==
    {[auth |-> TRUE, body |-> b] : b \in {ScenarioBody, EmptyBody, TextBody}}
    \cup {[auth |-> FALSE, body |-> ScenarioBody]}

Response(status, fwi) == [status |-> status, fwi_prediction |-> fwi]

\* data.get(key, 0)
Get(body, key) == IF body[key].kind = "missing" THEN Num(0) ELSE body[key]
\* float(v) raises ValueError on text that is no number
FloatRaises(body) == \E k \in Range(request_keys) : Get(body, k).kind = "text"
\* lines 182-187
BuildFeatureList(body) == [i \in FeatureIdx |-> Get(body, request_keys[i]).v]

\* round(x, 2) of a fixed-point number: to the nearest hundredth, an exact
\* tie to the even one; round(nan, 2) is nan
Round2(x) ==
    IF ~IsFinite(x) THEN x
    ELSE LET step == Unit \div 100
             lo == (x.v \div step) * step
             rest == x.v - lo
         IN IF 2 * rest < step THEN F(lo)
            ELSE IF 2 * rest > step THEN F(lo + step)
            ELSE IF (lo \div step) % 2 = 0 THEN F(lo) ELSE F(lo + step)

Receive(t) ==
    /\ app = "up"
    /\ reqs[t].pc = "idle"
    /\ \E r \in Requests : reqs' = [reqs EXCEPT ![t] = [pc |-> "received", req |-> r]]
    /\ UNCHANGED <<trainVars, app, app_scaler, pinn_model, phys, authVars>>

\* line 172: @login_required answers 401 before the view function runs
LoginRequired(t) ==
    /\ reqs[t].pc = "received"
    /\ reqs' = [reqs EXCEPT ![t] =
            IF reqs[t].req.auth
            THEN [@ EXCEPT !.pc = "authorized"]
            ELSE [pc |-> "done", req |-> @.req, resp |-> Response(401, None)]]
    /\ UNCHANGED <<trainVars, app, app_scaler, pinn_model, phys, authVars>>

\* lines 175-177
ModelsAvailable == pinn_model # None /\ app_scaler # None

CheckModels(t) ==
    /\ reqs[t].pc = "authorized"
    /\ reqs' = [reqs EXCEPT ![t] =
            IF ModelsAvailable
            THEN [@ EXCEPT !.pc = "checked"]
            ELSE [pc |-> "done", req |-> @.req, resp |-> Response(503, None)]]
    /\ UNCHANGED <<trainVars, app, app_scaler, pinn_model, phys, authVars>>

\* lines 179-187; an exception is answered 400 (lines 201-203)
BuildFeatures(t) ==
    /\ reqs[t].pc = "checked"
    /\ reqs' = [reqs EXCEPT ![t] =
            IF FloatRaises(@.req.body)
            THEN [pc |-> "done", req |-> @.req, resp |-> Response(400, None)]
            ELSE [pc |-> "parsed", req |-> @.req,
                  features |-> BuildFeatureList(@.req.body)]]
    /\ UNCHANGED <<trainVars, app, app_scaler, pinn_model, phys, authVars>>

\* the feature list kept in a module-level global: a thread scales whatever
\* list some thread built last
ScaleFeaturesShared(t) ==
    /\ reqs[t].pc = "parsed"
    /\ \E u \in Threads :
        /\ HasField(reqs[u], "features")
        /\ reqs' = [reqs EXCEPT ![t] =
                [pc |-> "scaled", req |-> @.req, features |-> @.features,
                 scaled_features |-> Transform(app_scaler, reqs[u].features)]]
    /\ UNCHANGED <<trainVars, app, app_scaler, pinn_model, phys, authVars>>

\* line 190
ScaleFeatures(t) ==
    /\ reqs[t].pc = "parsed"
    /\ reqs' = [reqs EXCEPT ![t] =
            [pc |-> "scaled", req |-> @.req, features |-> @.features,
             scaled_features |-> Transform(app_scaler, @.features)]]
    /\ UNCHANGED <<trainVars, app, app_scaler, pinn_model, phys, authVars>>

\* line 193
Predict(t) ==
    /\ reqs[t].pc = "scaled"
    /\ reqs' = [reqs EXCEPT ![t] =
            [pc |-> "predicted", req |-> @.req, features |-> @.features,
             scaled_features |-> @.scaled_features,
             prediction |-> Forward(pinn_model, @.scaled_features)]]
    /\ UNCHANGED <<trainVars, app, app_scaler, pinn_model, phys, authVars>>

\* lines 196-199
Respond(t) ==
    /\ reqs[t].pc = "predicted"
    /\ reqs' = [reqs EXCEPT ![t] =
            [pc |-> "done", req |-> @.req, features |-> @.features,
             scaled_features |-> @.scaled_features, prediction |-> @.prediction,
             resp |-> Response(200, Round2(@.prediction))]]
    /\ UNCHANGED <<trainVars, app, app_scaler, pinn_model, phys, authVars>>

predict(t) ==
    \/ Receive(t)
    \/ LoginRequired(t)
    \/ CheckModels(t)
    \/ BuildFeatures(t)
    \/ ScaleFeatures(t)
    \/ Predict(t)
    \/ Respond(t)

-----------------------------------------------------------------------------
(* app.py: registration, login and the protected routes (lines 62-121,     *)
(* 171-173, 206-208, 231-233), the requests of one session one at a time   *)

\* what a request can carry as email; "" is a missing or empty field
Emails == {"a@x", "b@x"}
EmailInputs == Emails \cup {""}

\* a password is the bytes bcrypt hashes (head, the first 72) and the rest
Pw(head, tail) == [head |-> head, tail |-> tail]
PasswordInputs == {Pw("p", ""), Pw("p", "more"), Pw("q", ""), Pw("", "")}

\* not all([email, password]): None and the empty string are falsy
FieldMissing(email, password) == email = "" \/ password = Pw("", "")

\* check_password_hash accepts every password
check_password_hash_any(hash, password) == TRUE

\* bcrypt.generate_password_hash / bcrypt.check_password_hash
generate_password_hash(password) == [bcrypt |-> password.head]
check_password_hash(hash, password) == hash = generate_password_hash(password)

\* User.query.filter_by(email=email).first(); email is unique
UsersWith(email) == {u \in users : u.email = email}
Registered(email) == UsersWith(email) # {}
first(email) == CHOOSE u \in UsersWith(email) : TRUE

\* current_user.is_authenticated
is_authenticated == current_user # Anonymous

Credentials(email, password) == [email |-> email, password |-> password]
NoData == [email |-> "", password |-> Pw("", "")]
\* served: whether the view function ran
Answer(op, data, status, served) ==
    [op |-> op, data |-> data, status |-> status, served |-> served]

\* lines 76-86
register ==
    /\ app = "up"
    /\ \E email \in EmailInputs, password \in PasswordInputs :
        IF FieldMissing(email, password)
        THEN /\ last' = Answer("register", Credentials(email, password), 400, TRUE)
             /\ users' = users
        ELSE IF Registered(email)
        THEN /\ last' = Answer("register", Credentials(email, password), 409, TRUE)
             /\ users' = users
        ELSE /\ users' = users \cup {[email |-> email,
                                      password |-> generate_password_hash(password)]}
             /\ last' = Answer("register", Credentials(email, password), 201, TRUE)
    /\ UNCHANGED <<trainVars, appVars, phys, current_user>>

\* lines 88-97
login ==
    /\ app = "up"
    /\ \E email \in EmailInputs, password \in PasswordInputs :
        IF FieldMissing(email, password)
        THEN /\ last' = Answer("login", Credentials(email, password), 400, TRUE)
             /\ current_user' = current_user
        ELSE IF Registered(email) /\ check_password_hash(first(email).password, password)
        THEN /\ current_user' = email
             /\ last' = Answer("login", Credentials(email, password), 200, TRUE)
        ELSE /\ last' = Answer("login", Credentials(email, password), 401, TRUE)
             /\ current_user' = current_user
    /\ UNCHANGED <<trainVars, appVars, phys, users>>

\* lines 99-103: @login_required answers 401 without running the view
logout ==
    /\ app = "up"
    /\ IF is_authenticated
       THEN /\ current_user' = Anonymous
            /\ last' = Answer("logout", NoData, 200, TRUE)
       ELSE /\ last' = Answer("logout", NoData, 401, FALSE)
            /\ current_user' = current_user
    /\ UNCHANGED <<trainVars, appVars, phys, users>>

\* lines 105-109
check_session ==
    /\ app = "up"
    /\ last' = Answer("check_session", NoData, IF is_authenticated THEN 200 ELSE 401, TRUE)
    /\ UNCHANGED <<trainVars, appVars, phys, users, current_user>>

\* the data routes behind @login_required
DataRoutes == {"predict", "get_weather", "get_fires", "get_station_data"}
\* the statuses the view function of a data route can return; get_weather
\* passes on the status of the weather service's error, whatever it is
ViewStatuses(op) ==
    CASE op = "predict" -> IF ModelsAvailable THEN {200, 400} ELSE {503}
      [] op = "get_weather" -> {200, 401, 404, 500, 502}
      [] op = "get_fires" -> {200, 500}
      [] op = "get_station_data" -> {200, 400, 404, 500}

\* lines 119-121, 171-173, 206-208, 231-233
data_request ==
    /\ app = "up"
    /\ \E op \in DataRoutes :
        IF is_authenticated
        THEN \E status \in ViewStatuses(op) : last' = Answer(op, NoData, status, TRUE)
        ELSE last' = Answer(op, NoData, 401, FALSE)
    /\ UNCHANGED <<trainVars, appVars, phys, users, current_user>>

-----------------------------------------------------------------------------
(* Specifications *)

\* a training run, then the service with one worker thread
Next ==
    \/ TrainNext
    \/ Startup
    \/ predict(1)

Spec == Init /\ [][Next]_vars

\* the training run alone; the script runs on without waiting for anything
LiveSpec == Init /\ [][TrainNext]_vars /\ WF_vars(TrainNext)

\* artifacts an earlier training run can have left
TrainMatrices == {<<RowA, RowB>>, <<RowA>>}
ScalerFiles == {Fit(Samples(ConvertNumeric(m)), DOMAIN m) : m \in TrainMatrices}
DiskStates ==
    [scaler : {Absent, Corrupt} \cup ScalerFiles,
     model : {Absent, Corrupt, NaNParams} \cup ParamSpace]

\* the service alone, on whatever the disk holds, with MaxInflight threads
\* no training run in this behaviour
TrainOff ==
    /\ pc = "off"
    /\ csv = [exists |-> FALSE, columns |-> {}, rows |-> <<>>]
    /\ df = <<>>
    /\ train_idx = {}
    /\ test_idx = {}
    /\ scaler = None
    /\ X_train_scaled = <<>>
    /\ X_test_scaled = <<>>
    /\ model = None
    /\ epoch = 0
    /\ remaining = {}
    /\ opt_steps = 0
    /\ last_loss = None
    /\ test_loss = None
    /\ writes = [scaler |-> 0, model |-> 0]

ServeInit ==
    /\ TrainOff
    /\ disk \in DiskStates
    /\ AppInit
    /\ phys = IdlePhys
    /\ AuthInit

ServeNext ==
    \/ Startup
    \/ \E t \in Threads : predict(t)

ServeSpec == ServeInit /\ [][ServeNext]_vars

\* the service with one session: its requests arrive one after the other
AuthNext ==
    \/ Startup
    \/ register
    \/ login
    \/ logout
    \/ check_session
    \/ data_request

AuthSpec == ServeInit /\ [][AuthNext]_vars

-----------------------------------------------------------------------------
(* The physics penalty on its own: any batch of input gradients *)

GradVals == {-1, 0, 1}
OtherVals == {-1, 1}

\* one sample's gradient: the four physics features take every combination
\* of signs; the four others all take the value o, the same in a whole batch
GradRow(t, rh, ws, rain, o) == <<t, rh, ws, rain, o, o, o, o>>
GradRows(o) == {GradRow(t, rh, ws, rain, o) : t \in GradVals, rh \in GradVals,
                                              ws \in GradVals, rain \in GradVals}

\* rows in a fixed order: a mean does not depend on the order of the samples
RowLeq(a, b) ==
    \/ a = b
    \/ \E i \in FeatureIdx : a[i] < b[i] /\ \A j \in 1..(i - 1) : a[j] = b[j]

GradBatches ==
    UNION {{g \in [1..n -> GradRows(o)] : \A k \in 1..(n - 1) : RowLeq(g[k], g[k + 1])} :
           n \in 1..MaxPhysBatch, o \in OtherVals}

PhysInit ==
    /\ TrainOff
    /\ disk = [scaler |-> Absent, model |-> Absent]
    /\ AppInit
    /\ phys \in {[pc |-> "input", gradients |-> g] : g \in GradBatches}
    /\ AuthInit

\* lines 105-114 applied to the gradients the tape returned
PhysicsLossCall ==
    /\ phys.pc = "input"
    /\ phys' = [pc |-> "done", gradients |-> phys.gradients,
                penalty |-> PhysicsPenalty(phys.gradients)]
    /\ UNCHANGED <<trainVars, appVars, authVars>>

PhysNext == PhysicsLossCall

PhysSpec == PhysInit /\ [][PhysNext]_vars

-----------------------------------------------------------------------------
(* Properties *)

\* the quantity each training column and each request key stands for
ColumnQuantity == [Temperature |-> "temperature", RH |-> "relative humidity",
                   Ws |-> "wind speed", Rain |-> "rain", FFMC |-> "FFMC",
                   DMC |-> "DMC", DC |-> "DC", ISI |-> "ISI"]
KeyQuantity == [temperature |-> "temperature", humidity |-> "relative humidity",
                wind_speed |-> "wind speed", rain |-> "rain", ffmc |-> "FFMC",
                dmc |-> "DMC", dc |-> "DC", isi |-> "ISI"]
KeyFor(col) == CHOOSE k \in DOMAIN KeyQuantity : KeyQuantity[k] = ColumnQuantity[col]
PhysicsQuantity(name) == ColumnQuantity[FEATURES[PHYSICS_FEATURES_INDICES[name] + 1]]

Done(t) == reqs[t].pc = "done"
Answered(t, status) == Done(t) /\ reqs[t].resp.status = status

(* C1: position i of the feature vector predict builds holds the request   *)
(* field of the quantity of training column FEATURES[i], for all 8         *)
(* positions; that vector goes to the scaler and its scaling to the        *)
(* network; physics indices 0..3 are temperature, relative humidity, wind  *)
(* speed and rain.                                                         *)
C1_FeatureOrder ==
    /\ \A i \in FeatureIdx : KeyQuantity[request_keys[i]] = ColumnQuantity[FEATURES[i]]
    /\ PhysicsQuantity("Temperature") = "temperature"
    /\ PhysicsQuantity("RH") = "relative humidity"
    /\ PhysicsQuantity("Ws") = "wind speed"
    /\ PhysicsQuantity("Rain") = "rain"
    /\ \A name \in DOMAIN PHYSICS_FEATURES_INDICES : PHYSICS_FEATURES_INDICES[name] \in 0..3
    /\ \A t \in Threads :
        /\ HasField(reqs[t], "features") =>
            \A i \in FeatureIdx :
                reqs[t].features[i] = Get(reqs[t].req.body, KeyFor(FEATURES[i])).v
        /\ HasField(reqs[t], "scaled_features") =>
            reqs[t].scaled_features = Transform(app_scaler, reqs[t].features)
        /\ HasField(reqs[t], "prediction") =>
            reqs[t].prediction = Forward(pinn_model, reqs[t].scaled_features)

\* a request with eight different values was answered with a prediction
C1_Witness ==
    \E t \in Threads : Answered(t, 200) /\ reqs[t].req.body = ScenarioBody

PhaseRank == [start |-> 0, prepared |-> 1, split |-> 2, scaled |-> 3, Initialized |-> 4,
              Fitting |-> 5, Evaluating |-> 6, Evaluated |-> 7, ScalerSaved |-> 8,
              Persisted |-> 9, exited |-> 10, crashed |-> 10, off |-> 10]
AfterFitting == {"Evaluating", "Evaluated", "ScalerSaved", "Persisted"}
\* batches of one epoch: the last one may be smaller
NBatches == (Cardinality(train_idx) + BATCH_SIZE - 1) \div BATCH_SIZE

C2_Forward == PhaseRank[pc'] >= PhaseRank[pc] /\ epoch' \in {epoch, epoch + 1}
C2_EpochAfterBatches ==
    epoch' = epoch + 1 =>
        \/ epoch = 0 /\ pc = "Initialized" /\ opt_steps = 0
        \/ pc = "Fitting" /\ remaining = {} /\ opt_steps = epoch * NBatches
C2_EvaluateAfterEpochs ==
    pc \in AfterFitting =>
        epoch = N_EPOCHS /\ remaining = {} /\ opt_steps = N_EPOCHS * NBatches
C2_WrittenOnce ==
    /\ writes.scaler = (IF pc \in {"ScalerSaved", "Persisted"} THEN 1 ELSE 0)
    /\ writes.model = (IF pc = "Persisted" THEN 1 ELSE 0)
    /\ writes.scaler = 1 => test_loss # None
C2_FrozenAfterFitting == pc \in AfterFitting => model' = model /\ opt_steps' = opt_steps

(* C2: a training run goes Initialized, Fitting (epochs 1..N in order),    *)
(* Evaluating, Persisted and never back; an epoch starts only when every   *)
(* batch of the one before had its optimizer step; evaluation starts only  *)
(* after epoch N; each artifact is written once, after evaluation; no      *)
(* parameter changes after the last optimizer step; and a run that is      *)
(* Initialized reaches Persisted.                                          *)
C2_TrainingPhases ==
    /\ [][C2_Forward]_vars
    /\ [][C2_EpochAfterBatches]_vars
    /\ [](C2_EvaluateAfterEpochs)
    /\ [](C2_WrittenOnce)
    /\ [][C2_FrozenAfterFitting]_vars
    /\ (pc = "Initialized") ~> (pc = "Persisted")

\* a run of N epochs with more than one batch each was persisted
C2_Witness == pc = "Persisted" /\ epoch = N_EPOCHS /\ NBatches > 1 /\ opt_steps = N_EPOCHS * NBatches

NoArtifactWritten ==
    writes = [scaler |-> 0, model |-> 0] /\ disk = [scaler |-> Absent, model |-> Absent]
\* the run is past the data-preparation section
Prepared == pc \notin {"start", "exited"}

\* some column of the training matrix has zero variance
DegenerateTrainingMatrix ==
    train_idx # {} /\ \E j \in FeatureIdx : ConstantColumn(df, train_idx, j)

(* C3: when a column of the training matrix is constant, the run stops at  *)
(* the scaler fit: no network parameter is created or updated, no          *)
(* optimizer step runs and no artifact is written.                         *)
C3_DegenerateFeatureError ==
    DegenerateTrainingMatrix =>
        /\ model = None
        /\ opt_steps = 0
        /\ NoArtifactWritten

\* a train_step has returned a loss that is NaN or infinite
NonFiniteLoss == HasField(last_loss, "total_loss") /\ ~IsFinite(last_loss.total_loss)

(* C4: once a training step has produced a non-finite loss, no further     *)
(* optimizer step is applied, and the run goes on neither to evaluate nor  *)
(* to write an artifact.                                                   *)
C4_NumericInstabilityHalts ==
    [][NonFiniteLoss =>
        /\ opt_steps' = opt_steps
        /\ pc' \notin AfterFitting
        /\ writes' = writes]_vars

\* a required column is not in the file
ColumnAbsent == \E c \in Range(numeric_cols) : c \notin csv.columns
\* a cell of a feature or target column that is no number
NotANumber(row) == \E c \in Range(numeric_cols) \cap DOMAIN row : row[c].kind = "text"
InvalidCell == \E i \in DOMAIN csv.rows : NotANumber(csv.rows[i])
\* the rows of the file whose feature and target cells all are numbers
ValidRows == SelectSeq(csv.rows, LAMBDA r : ~NotANumber(r))

Pos(quantity) == CHOOSE i \in FeatureIdx : ColumnQuantity[FEATURES[i]] = quantity
\* the four features with a monotonicity constraint
ConstrainedPos == {Pos("temperature"), Pos("relative humidity"), Pos("wind speed"),
                   Pos("rain")}
\* every sample's gradient has the sign physics expects
SignsRespected(g) ==
    \A k \in DOMAIN g :
        /\ g[k][Pos("temperature")] >= 0
        /\ g[k][Pos("wind speed")] >= 0
        /\ g[k][Pos("relative humidity")] <= 0
        /\ g[k][Pos("rain")] <= 0
\* the same gradients with those of FFMC, DMC, DC and ISI set to zero
WithoutOthers(g) ==
    [k \in DOMAIN g |-> [i \in FeatureIdx |-> IF i \in ConstrainedPos THEN g[k][i] ELSE 0]]

(* C6: the physics penalty of a batch is 0 whenever every sample's         *)
(* gradient is >= 0 for temperature and wind speed and <= 0 for relative   *)
(* humidity and rain; and it is the penalty of the same batch with the     *)
(* gradients of FFMC, DMC, DC and ISI replaced by zero.                    *)
C6_PhysicsPenaltyZero ==
    phys.pc = "done" =>
        /\ SignsRespected(phys.gradients) => phys.penalty = 0
        /\ phys.penalty = PhysicsPenalty(WithoutOthers(phys.gradients))

\* a batch of more than one sample with non-zero gradients of the expected
\* signs, and non-zero gradients of the other features, got penalty 0
C6_Witness ==
    /\ phys.pc = "done"
    /\ Len(phys.gradients) > 1
    /\ SignsRespected(phys.gradients)
    /\ \E k \in DOMAIN phys.gradients :
        /\ phys.gradients[k][Pos("temperature")] > 0
        /\ phys.gradients[k][Pos("rain")] < 0
        /\ phys.gradients[k][Pos("ISI")] # 0
    /\ phys.penalty = 0

C7_Disjoint ==
    /\ train_idx \cap test_idx = {}
    /\ pc \in {"split", "scaled", "Initialized", "Fitting"} \cup AfterFitting =>
        train_idx # {} /\ train_idx \cup test_idx = DOMAIN df
C7_TrainingRowsOnly ==
    /\ pc \in {"start", "prepared", "split", "exited", "crashed"} =>
        scaler = None /\ X_train_scaled = <<>> /\ X_test_scaled = <<>>
    /\ scaler # None =>
        /\ scaler = Fit(df, train_idx)
        /\ X_train_scaled = [i \in train_idx |-> Transform(scaler, df[i].x)]
        /\ X_test_scaled = [i \in test_idx |-> Transform(scaler, df[i].x)]
C7_SameStatistics ==
    /\ disk.scaler \in {Absent, scaler}
    /\ pc = "Persisted" => disk.scaler = scaler
    /\ app_scaler \in {None, scaler}
    /\ \A t \in Threads :
        HasField(reqs[t], "scaled_features") =>
            reqs[t].scaled_features = Transform(scaler, reqs[t].features)
C7_SplitOnce ==
    /\ train_idx \cup test_idx # {} => train_idx' = train_idx /\ test_idx' = test_idx
    /\ train_idx' # train_idx \/ test_idx' # test_idx => scaler = None /\ scaler' = None
C7_FitOnce == scaler # None => scaler' = scaler

(* C7: the frame is split once, before any scaling, into disjoint training *)
(* and test sets; the scaler's statistics are those of the training rows   *)
(* alone and never change after the fit; the scaled training and test      *)
(* matrices, the persisted scaler and the scaling of every inference       *)
(* input all use these statistics.                                         *)
C7_NoLeakage ==
    /\ [](C7_Disjoint)
    /\ [](C7_TrainingRowsOnly)
    /\ [](C7_SameStatistics)
    /\ [][C7_SplitOnce]_vars
    /\ [][C7_FitOnce]_vars

\* a request was scaled and answered by a persisted run whose test rows
\* would have changed the statistics
C7_Witness ==
    /\ pc = "Persisted"
    /\ test_idx # {}
    /\ Answered(1, 200)
    /\ Fit(df, train_idx) # Fit(df, train_idx \cup test_idx)

\* the answer to request r as a function of r and the loaded artifacts alone
AnswerOf(r) ==
    IF ~r.auth THEN Response(401, None)
    ELSE IF ~ModelsAvailable THEN Response(503, None)
    ELSE IF FloatRaises(r.body) THEN Response(400, None)
    ELSE Response(200, Round2(Forward(pinn_model,
                                      Transform(app_scaler, BuildFeatureList(r.body)))))

C8_ReadOnly == app = "up" => app_scaler' = app_scaler /\ pinn_model' = pinn_model
C8_OwnInputOnly ==
    \A t \in Threads :
        /\ Done(t) => reqs[t].resp = AnswerOf(reqs[t].req)
        /\ HasField(reqs[t], "scaled_features") =>
            reqs[t].scaled_features =
                Transform(app_scaler, BuildFeatureList(reqs[t].req.body))

(* C8: under every interleaving of the predict requests of the worker      *)
(* threads, no step of a request changes the loaded scaler or the loaded   *)
(* network parameters, and the answer to each request is the one its own   *)
(* input and the loaded artifacts determine, whatever the other threads    *)
(* are doing.                                                              *)
C8_ConcurrentPredict ==
    /\ [][C8_ReadOnly]_vars
    /\ [](C8_OwnInputOnly)

\* a request was answered with a prediction while another thread, with a
\* different input that predicts differently, was between scaling and answering
C8_Witness ==
    /\ Answered(1, 200)
    /\ reqs[2].pc = "predicted"
    /\ reqs[2].req.body # reqs[1].req.body
    /\ Round2(reqs[2].prediction) # reqs[1].resp.fwi_prediction

\* loading the scaler or the model failed at startup
LoadFailed == app = "up" /\ (~ScalerLoads(disk.scaler) \/ ~ModelLoads(disk.model))
NothingComputed(t) ==
    ~HasField(reqs[t], "scaled_features") /\ ~HasField(reqs[t], "prediction")
C9_BothOrNeither == (app_scaler = None) <=> (pinn_model = None)
C9_EvaluatesOnlyLoaded ==
    \A t \in Threads :
        ~NothingComputed(t) =>
            /\ ScalerLoads(disk.scaler) /\ ModelLoads(disk.model)
            /\ app_scaler = disk.scaler /\ pinn_model = disk.model

(* C9, as stated: after a failed load both globals are unset, and every    *)
(* predict request is answered 503 with nothing scaled or evaluated.       *)
C9_Always503 ==
    /\ C9_BothOrNeither
    /\ C9_EvaluatesOnlyLoaded
    /\ LoadFailed =>
        /\ app_scaler = None /\ pinn_model = None
        /\ \A t \in Threads :
            /\ NothingComputed(t)
            /\ Done(t) => reqs[t].resp = Response(503, None)

(* C9, amended: after a failed load both globals are unset together and    *)
(* the service is up; every predict request of a logged-in session is      *)
(* answered 503, one without a login 401, and in neither case is anything  *)
(* scaled or evaluated; the network is evaluated only when both artifacts  *)
(* were loaded.                                                            *)
C9_LoadFailure ==
    /\ C9_BothOrNeither
    /\ C9_EvaluatesOnlyLoaded
    /\ LoadFailed =>
        /\ app_scaler = None /\ pinn_model = None
        /\ \A t \in Threads :
            /\ NothingComputed(t)
            /\ Done(t) =>
                reqs[t].resp = Response(IF reqs[t].req.auth THEN 503 ELSE 401, None)

\* the scaler file loads, the model file does not, and a logged-in request
\* was answered 503
C9_Witness ==
    /\ LoadFailed
    /\ ScalerLoads(disk.scaler)
    /\ \E t \in Threads : Answered(t, 503) /\ reqs[t].req.auth

\* every field of the request body is a number
ValidInput(body) == \A k \in Range(request_keys) : body[k].kind = "num"

(* C10: with the artifact of a persisted training run whose parameters are *)
(* finite, a request with eight numeric fields is answered 200 with a      *)
(* finite fire-weather index that is not negative.                         *)
C10_NonNegative ==
    \A t \in Threads :
        (/\ Done(t)
         /\ reqs[t].req.auth
         /\ ValidInput(reqs[t].req.body)
         /\ pc = "Persisted"
         /\ pinn_model.kind = "params") =>
            /\ reqs[t].resp.status = 200
            /\ IsFinite(reqs[t].resp.fwi_prediction)
            /\ reqs[t].resp.fwi_prediction.v >= 0

\* the operations behind @login_required
ProtectedOps == DataRoutes \cup {"logout"}
\* the step is a login with a registered email and a password matching the
\* hash stored for it
SuccessfulLogin ==
    /\ last'.op = "login"
    /\ last'.status = 200
    /\ \E u \in users :
        /\ u.email = last'.data.email
        /\ u.password = generate_password_hash(last'.data.password)
    /\ current_user' = last'.data.email
SessionUnchanged == current_user' = current_user /\ users' = users

C11_ServedOnlyLoggedIn ==
    last'.op \in ProtectedOps =>
        /\ last'.served <=> current_user # Anonymous
        /\ ~last'.served => last'.status = 401 /\ SessionUnchanged
C11_LoggedInOnlyByLogin ==
    /\ (current_user' # current_user /\ current_user' # Anonymous) => SuccessfulLogin
    /\ (last'.op = "login" /\ last'.status = 200) => SuccessfulLogin
C11_FailedLoginChangesNothing ==
    (last'.op = "login" /\ ~SuccessfulLogin) =>
        /\ last'.status \in {400, 401}
        /\ SessionUnchanged
C11_RegisterNeverLogsIn ==
    last'.op = "register" => current_user' = current_user
C11_LogoutEndsSession ==
    /\ (last'.op = "logout" /\ last'.served) => current_user' = Anonymous
    /\ (current_user # Anonymous /\ current_user' = Anonymous) => last'.op = "logout"
C11_SessionOfARegisteredUser ==
    current_user # Anonymous => \E u \in users : u.email = current_user

(* C11: on one session, a request to predict, weather, fires, station_data *)
(* or logout runs its view exactly when the session is logged in, and is   *)
(* answered 401 without any effect otherwise; the session becomes logged   *)
(* in only by a login whose email is registered and whose password matches *)
(* the stored hash; a login that fails (unknown email, wrong password,     *)
(* missing field) changes nothing; register never changes the session; a   *)
(* logout leaves the session anonymous, and it stays so until the next     *)
(* successful login.                                                       *)
C11_LoginRequired ==
    /\ [][C11_ServedOnlyLoggedIn]_vars
    /\ [][C11_LoggedInOnlyByLogin]_vars
    /\ [][C11_FailedLoginChangesNothing]_vars
    /\ [][C11_RegisterNeverLogsIn]_vars
    /\ [][C11_LogoutEndsSession]_vars
    /\ [](C11_SessionOfARegisteredUser)

\* with two users registered, the session is logged in as one of them and
\* its predict request was served
C11_Witness ==
    /\ Cardinality(users) = 2
    /\ current_user \in Emails
    /\ last.op = "predict"
    /\ last.served

====
